---- MODULE Spec2Model ----
(***************************************************************************)
(* Model of AccessServerAdapter (extensions/amp-access/0.1/                *)
(* amp-access-server.js): protocol selection, the timed authorization      *)
(* round trip, the section merge and the reader-id encryption.             *)
(***************************************************************************)
EXTENDS Integers, Sequences, FiniteSets, TLC

\* ------------------------------------------------------------------------
\* Bounds of the model
\* ------------------------------------------------------------------------
\* Largest number of elements of a live document in MergeSpec.
MaxLive == 3
\* Largest number of elements of a response document in MergeSpec.
MaxResp == 2
\* Largest number of successive merges of one response document in MergeSpec.
MaxMerges == 2
\* Number of authorize() calls made on the adapter in Spec.
MaxCalls == 2
\* Number of encodeReaderId() calls made on the adapter in EncSpec.
MaxEncodes == 2

\* ------------------------------------------------------------------------
\* Documents
\* ------------------------------------------------------------------------
\* An element is [id, txt, owner, kids]: the value of its i-amp-access-id
\* attribute as a sequence of characters (NoId when it has no such
\* attribute), its own content, its ownerDocument and its child elements in
\* order.  A document body is a sequence of elements.
NoId == <<"no attribute">>
IdA == <<"a">>
IdB == <<"b">>
IdC == <<"c">>
\* An identifier with a double quote in it: q"
QuoteId == <<"q", "\"">>
Ids == {IdA, IdB, IdC}

Elem(i, t, o, ks) == [id |-> i, txt |-> t, owner |-> o, kids |-> ks]

\* The document bodies of exactly n elements, each owned by o with content t
\* and with an identifier of ids or none.
RECURSIVE ForestsOfSize(_, _, _, _)
ForestsOfSize(o, t, ids, n) ==
  IF n = 0 THEN {<<>>}
  ELSE UNION {
         {<<Elem(i, t, o, ks)>> \o rest :
            i \in ids \cup {NoId},
            ks \in ForestsOfSize(o, t, ids, k - 1),
            rest \in ForestsOfSize(o, t, ids, n - k)} :
         k \in 1..n}

\* The document bodies of at most n elements.
Forests(o, t, ids, n) == UNION {ForestsOfSize(o, t, ids, m) : m \in 0..n}

\* '[i-amp-access-id="' + sectionId + '"]', as a sequence of characters (the
\* attribute name counts as one).
AttrSelector(sectionId) ==
  <<"[", "i-amp-access-id", "=", "\"">> \o sectionId \o <<"\"", "]">>

\* The selector as querySelector parses it: the quoted value ends at the first
\* double quote after the opening one, and only the closing bracket may follow
\* it; anything else is a syntax error.
ParseAttrSelector(sel) ==
  LET body == SubSeq(sel, 5, Len(sel))
      close == CHOOSE k \in 1..Len(body) :
                 body[k] = "\"" /\ \A j \in 1..(k - 1) : body[j] # "\""
  IN  [valid |-> SubSeq(body, close + 1, Len(body)) = <<"]">>,
       value |-> SubSeq(body, 1, close - 1)]

\* The path (child indices from the body) of the first element in document
\* order, from the i-th top-level element on, whose identifier is value; <<>>
\* when there is none.
RECURSIVE FirstMatch(_, _, _)
FirstMatch(forest, value, i) ==
  IF i > Len(forest) THEN <<>>
  ELSE IF forest[i].id = value THEN <<i>>
  ELSE LET p == FirstMatch(forest[i].kids, value, 1)
       IN  IF p # <<>> THEN <<i>> \o p
           ELSE FirstMatch(forest, value, i + 1)

\* this.win.document.querySelector('[i-amp-access-id="' + sectionId + '"]'):
\* it throws on a selector that does not parse, else path is the first element
\* in document order that matches, <<>> for null.
QuerySelector(forest, sectionId) ==
  LET sel == ParseAttrSelector(AttrSelector(sectionId))
  IN  IF ~sel.valid THEN [threw |-> TRUE, path |-> <<>>]
      ELSE [threw |-> FALSE, path |-> FirstMatch(forest, sel.value, 1)]

\* doc.querySelectorAll('[i-amp-access-id]'): every element that has the
\* attribute, in document order (an element before its descendants).
RECURSIVE QuerySelectorAll(_)
QuerySelectorAll(forest) ==
  IF forest = <<>> THEN <<>>
  ELSE LET n == Head(forest)
       IN  (IF n.id # NoId THEN <<n>> ELSE <<>>)
             \o QuerySelectorAll(n.kids) \o QuerySelectorAll(Tail(forest))

\* A shallow import: the element without its descendants.
ImportNodeShallow(n) == Elem(n.id, n.txt, "live", <<>>)

\* document.importNode(section, /* deep */ true): a copy of the element and
\* of all its descendants, owned by the live document.
RECURSIVE ImportNode(_)
ImportNode(n) ==
  Elem(n.id, n.txt, "live", [k \in 1..Len(n.kids) |-> ImportNode(n.kids[k])])

\* An insertion of new before the element at path, which stays.
RECURSIVE InsertBefore(_, _, _)
InsertBefore(forest, path, new) ==
  IF Len(path) = 1
    THEN SubSeq(forest, 1, Head(path) - 1) \o <<new>>
           \o SubSeq(forest, Head(path), Len(forest))
    ELSE [forest EXCEPT ![Head(path)] =
            [@ EXCEPT !.kids = InsertBefore(@, Tail(path), new)]]

\* target.parentElement.replaceChild(new, target): new takes the place of the
\* element at path among its parent's children.
RECURSIVE ReplaceChild(_, _, _)
ReplaceChild(forest, path, new) ==
  [forest EXCEPT ![Head(path)] =
     IF Len(path) = 1 THEN new
     ELSE [@ EXCEPT !.kids = ReplaceChild(@, Tail(path), new)]]

\* The mutator of replaceSections_: the loop over the sections from index i
\* on.  It gives the live document when the loop ends, and whether it ended
\* by an exception.
RECURSIVE ReplaceLoop(_, _, _)
ReplaceLoop(live, sections, i) ==
  IF i > Len(sections) THEN [doc |-> live, threw |-> FALSE]
  ELSE LET section == sections[i]
           target == QuerySelector(live, section.id)
       IN  IF target.threw THEN [doc |-> live, threw |-> TRUE]
           ELSE IF target.path = <<>> THEN ReplaceLoop(live, sections, i + 1)
           ELSE ReplaceLoop(
                  ReplaceChild(live, target.path, ImportNode(section)),
                  sections, i + 1)

\* replaceSections_(doc) once its mutation batch has run on the document live.
ReplaceSections(live, doc) == ReplaceLoop(live, QuerySelectorAll(doc), 1)

\* ------------------------------------------------------------------------
\* Values
\* ------------------------------------------------------------------------
\* JavaScript null, as the value of a field that otherwise holds a string.
Null == "<null>"

\* AUTHORIZATION_TIMEOUT, in milliseconds.
AUTHORIZATION_TIMEOUT == 3000

\* The text of the access-data element of the sample responses.
DataTexts == {"{\"subscriber\":true}", "{\"subscriber\":false}", "{oops"}

\* JSON.parse(accessDataString): the parsed value, or a SyntaxError.
JsonParse(text) ==
  CASE text = "{\"subscriber\":true}"  -> [ok |-> TRUE, value |-> [subscriber |-> TRUE]]
    [] text = "{\"subscriber\":false}" -> [ok |-> TRUE, value |-> [subscriber |-> FALSE]]
    [] OTHER                          -> [ok |-> FALSE, value |-> [subscriber |-> FALSE]]

\* The outcome of a promise.
Pending == [kind |-> "pending"]
Resolved(v) == [kind |-> "resolved", value |-> v]
Rejected(e) == [kind |-> "rejected", error |-> e]

\* A JavaScript value a collected variable can have.
JsNull == [t |-> "null", v |-> ""]
JsUndefined == [t |-> "undefined", v |-> ""]
JsNumber(n) == [t |-> "number", v |-> n]
JsBool(b) == [t |-> "boolean", v |-> b]
JsString(str) == [t |-> "string", v |-> str]

\* String(value) for the values above.
String(x) ==
  CASE x.t = "string" -> x.v
    [] x.t = "number" -> (IF x.v = 0 THEN "0" ELSE "1")
    [] x.t = "boolean" -> (IF x.v THEN "true" ELSE "false")
    [] x.t = "null" -> "null"
    [] OTHER -> "undefined"

\* The maps collectUrlVars resolves with in the model.
VarsSamples ==
  { [READER_ID |-> JsString("r1"), RANDOM |-> JsNumber(0)],
    [READER_ID |-> JsNull, AUTHDATA |-> JsUndefined, FLAG |-> JsBool(FALSE),
     EMPTY |-> JsString("")] }

\* win.location.href as [base, fragment], and removeFragment(href).
Href == [base |-> "https://cdn.example/doc", fragment |-> "#top"]
RemoveFragment(href) == href.base

\* The response documents the network answers with in Spec: [hasData, text,
\* body], the access-data element (when the document has one) and the body.
Fragment(i, ks) == Elem(i, "Unlocked", "resp", ks)
Placeholder(i, ks) == Elem(i, "Locked", "live", ks)

RespSamples ==
  { [hasData |-> TRUE, text |-> "{\"subscriber\":true}",
     body |-> <<Fragment(IdA, <<>>)>>],
    [hasData |-> TRUE, text |-> "{\"subscriber\":false}",
     body |-> <<Fragment(IdB, <<>>), Fragment(IdA, <<Fragment(NoId, <<>>)>>)>>],
    [hasData |-> TRUE, text |-> "{\"subscriber\":true}",
     body |-> <<Fragment(IdA, <<>>), Fragment(QuoteId, <<>>),
                Fragment(IdB, <<>>)>>],
    [hasData |-> FALSE, text |-> "",
     body |-> <<Fragment(IdA, <<>>)>>],
    [hasData |-> TRUE, text |-> "{oops",
     body |-> <<Fragment(IdA, <<>>)>>] }

NoResp == [hasData |-> FALSE, text |-> "", body |-> <<>>]

\* A meta[name="i-amp-access-state"] element that stands in the body.
StateMeta == Elem(NoId, "meta i-amp-access-state", "live", <<>>)

\* The body holds the state meta element.
RECURSIVE HasStateMeta(_)
HasStateMeta(forest) ==
  \E i \in 1..Len(forest) :
    forest[i] = StateMeta \/ HasStateMeta(forest[i].kids)

\* The live documents Spec starts from; in the second the state meta element
\* is inside a placeholder.
AuthLiveDocs ==
  { <<Placeholder(IdA, <<Placeholder(NoId, <<>>)>>), Placeholder(NoId, <<>>)>>,
    <<Placeholder(IdA, <<StateMeta>>), Placeholder(IdB, <<>>)>> }

\* ------------------------------------------------------------------------
\* State
\* ------------------------------------------------------------------------
VARIABLES
  liveDoc,         \* win.document: the body of the live document
  stateElement,    \* win.document: the meta[name="i-amp-access-state"] element
  serverState_,    \* this.serverState_
  isProxyOrigin_,  \* this.isProxyOrigin_
  serviceUrl_,     \* this.serviceUrl_
  calls,           \* the authorize() calls: position and history of each
  vsyncQueue,      \* vsync: the mutation batches scheduled and not yet run
  cryptoCap,       \* win.crypto: what the runtime offers at the moment
  subtle_,         \* this.subtle_
  keyPromise_,     \* this.keyPromise_: 0 for null, else the promise's number
  keyPromises,     \* the key promises created so far: "pending", "fulfilled"
                   \* or the reason of the rejection
  encodes,         \* the encodeReaderId() calls: position and history of each
  crypto,          \* counts of the runtime's calls: probes, importKey, encrypt
  mergeDoc,        \* MergeSpec: the response document given to replaceSections_
  mergeLog,        \* MergeSpec: of each merge so far, the live document
                   \* before it and whether its mutator threw
  returned         \* what getConfig(), isAuthorizationEnabled() and pingback()
                   \* have returned so far

ctorVars == <<stateElement, serverState_, isProxyOrigin_, serviceUrl_>>
authVars == <<ctorVars, calls, vsyncQueue>>
encVars == <<cryptoCap, subtle_, keyPromise_, keyPromises, encodes, crypto>>
mergeVars == <<mergeDoc, mergeLog>>

vars == <<liveDoc, authVars, encVars, mergeVars, returned>>

\* ------------------------------------------------------------------------
\* Construction
\* ------------------------------------------------------------------------
\* The meta[name="i-amp-access-state"] element of a page: absent, present
\* without a content attribute, with empty content, with content; at tells
\* where it stands, in the head or inside the body.
StateElements ==
  { [present |-> FALSE, content |-> Null, at |-> Null],
    [present |-> TRUE, content |-> Null, at |-> "head"],
    [present |-> TRUE, content |-> "", at |-> "head"],
    [present |-> TRUE, content |-> "srv-state", at |-> "head"],
    [present |-> TRUE, content |-> "srv-state", at |-> "body"] }

\* What document.querySelector('meta[name="i-amp-access-state"]') finds in
\* the live document as it is now: the element the constructor found, unless
\* that one stood in the body and a merge has taken it out.
StateElementNow ==
  IF stateElement.at = "body" /\ ~HasStateMeta(liveDoc)
    THEN [present |-> FALSE, content |-> Null, at |-> Null]
    ELSE stateElement

\* stateElement ? stateElement.getAttribute('content') : null
ServerStateOf(el) == IF el.present THEN el.content ELSE Null

\* isProxyOrigin(win.location) || isInExperiment
ProxyFlag(proxyOrigin, isInExperiment) == proxyOrigin \/ isInExperiment

\* serviceUrlOverride || removeFragment(win.location.href), the override being
\* the viewer's serverAccessService parameter when the experiment is on.
ServiceUrl(isInExperiment, viewerParam) ==
  LET serviceUrlOverride == IF isInExperiment THEN viewerParam ELSE Null
  IN  IF serviceUrlOverride # Null /\ serviceUrlOverride # ""
      THEN serviceUrlOverride ELSE RemoveFragment(Href)

\* An authorize() call that has not been made yet.
IdleCall ==
  [pc |-> "idle", race |-> "none", net |-> "none", timer |-> "off", delay |-> 0,
   vars |-> <<>>, request |-> [url |-> "", state |-> Null, vars |-> <<>>],
   resp |-> NoResp, result |-> Pending,
   delegated |-> 0, collected |-> 0, fetched |-> 0, batched |-> 0,
   settled |-> 0, mutated |-> FALSE, threw |-> FALSE]

Calls == 1..MaxCalls

\* What win.crypto offers: nothing, a crypto object without a subtle
\* implementation, crypto.subtle, or only crypto.webkitSubtle.
Capabilities == {"none", "crypto", "subtle", "webkitSubtle"}

\* An encodeReaderId() call that has not been made yet.
IdleEncode == [pc |-> "idle", got |-> 0, order |-> 0, cap |-> "none",
               seen |-> "none", result |-> Pending]

Encodes == 1..MaxEncodes

\* The authorize() and encodeReaderId() calls of ApiSpec: one of each, among
\* any number of calls of the synchronous methods.
ApiCalls == {1}
ApiEncodes == {1}

\* Nothing has been returned by the synchronous methods yet.
NothingReturned == [getConfig |-> {}, isAuthorizationEnabled |-> {}, pingback |-> {}]

\* The encryption fields once the constructor has run.
EncFields ==
  /\ subtle_ = Null
  /\ keyPromise_ = 0
  /\ keyPromises = <<>>
  /\ encodes = [e \in Encodes |-> IdleEncode]
  /\ crypto = [probes |-> 0, importKey |-> 0, encrypt |-> 0]

\* The state once the constructor has run.
Init ==
  /\ liveDoc \in AuthLiveDocs
  /\ stateElement \in StateElements
  /\ stateElement.at = "body" <=> HasStateMeta(liveDoc)
  /\ serverState_ = ServerStateOf(stateElement)
  /\ \E proxyOrigin \in BOOLEAN, isInExperiment \in BOOLEAN,
        viewerParam \in {Null, "https://svc.example/auth"} :
       /\ isInExperiment \/ viewerParam = Null
       /\ isProxyOrigin_ = ProxyFlag(proxyOrigin, isInExperiment)
       /\ serviceUrl_ = ServiceUrl(isInExperiment, viewerParam)
  /\ calls = [c \in Calls |-> IdleCall]
  /\ vsyncQueue = <<>>
  /\ cryptoCap = "subtle"
  /\ EncFields
  /\ mergeDoc = <<>>
  /\ mergeLog = <<>>
  /\ returned = NothingReturned

\* ------------------------------------------------------------------------
\* authorize()
\* ------------------------------------------------------------------------
\* The server protocol chosen on the proxy flag alone.
UsesServerProtocolProxyOnly == isProxyOrigin_

\* The server protocol chosen whenever the marker has a content attribute,
\* empty or not.
UsesServerProtocolNonNull == isProxyOrigin_ /\ serverState_ # Null

\* The server protocol applies: the negation of
\* !this.isProxyOrigin_ || !this.serverState_.
UsesServerProtocol ==
  isProxyOrigin_ /\ serverState_ # Null /\ serverState_ # ""

\* requestVars that keeps only the variables with a truthy value.
RequestVarsTruthy(v) ==
  [k \in {k \in DOMAIN v : /\ v[k].t \notin {"null", "undefined"}
                           /\ String(v[k]) \notin {"", "0", "false"}}
     |-> String(v[k])]

\* requestVars: the collected variables that are neither null nor undefined,
\* as strings.
RequestVars(v) ==
  [k \in {k \in DOMAIN v : v[k].t \notin {"null", "undefined"}} |-> String(v[k])]

\* The request object of one authorization attempt.
Request(v) ==
  [url |-> RemoveFragment(Href), state |-> serverState_, vars |-> RequestVars(v)]

\* A handler that schedules the merge before it looks for the access data.
ResponseOutcomeMergeFirst(doc) ==
  IF ~doc.hasData
    THEN [schedule |-> TRUE, pc |-> "rejected",
          result |-> Rejected("No authorization data available")]
  ELSE IF ~JsonParse(doc.text).ok
    THEN [schedule |-> TRUE, pc |-> "rejected", result |-> Rejected("SyntaxError")]
  ELSE [schedule |-> TRUE, pc |-> "merge",
        result |-> Resolved(JsonParse(doc.text).value)]

\* A handler that returns the access data without waiting for the merge.
ResponseOutcomeNoAwait(doc) ==
  IF ~doc.hasData
    THEN [schedule |-> FALSE, pc |-> "rejected",
          result |-> Rejected("No authorization data available")]
  ELSE IF ~JsonParse(doc.text).ok
    THEN [schedule |-> FALSE, pc |-> "rejected", result |-> Rejected("SyntaxError")]
  ELSE [schedule |-> TRUE, pc |-> "resolved",
        result |-> Resolved(JsonParse(doc.text).value)]

\* A handler that parses the access data only once the merge is scheduled.
ResponseOutcomeParseLate(doc) ==
  IF ~doc.hasData
    THEN [schedule |-> FALSE, pc |-> "rejected",
          result |-> Rejected("No authorization data available")]
  ELSE IF ~JsonParse(doc.text).ok
    THEN [schedule |-> TRUE, pc |-> "rejected", result |-> Rejected("SyntaxError")]
  ELSE [schedule |-> TRUE, pc |-> "merge",
        result |-> Resolved(JsonParse(doc.text).value)]

\* What the handler of the response does with the document: the batch it
\* schedules (if any), where the call stands afterwards and with what value.
ResponseOutcome(doc) ==
  IF ~doc.hasData
    THEN [schedule |-> FALSE, pc |-> "rejected",
          result |-> Rejected("No authorization data available")]
  ELSE IF ~JsonParse(doc.text).ok
    THEN [schedule |-> FALSE, pc |-> "rejected", result |-> Rejected("SyntaxError")]
  ELSE [schedule |-> TRUE, pc |-> "merge",
        result |-> Resolved(JsonParse(doc.text).value)]

\* A response handler chained on the promise of fetchDocument itself.
ResponseHandledLate(c) == TRUE

\* The response handler is chained on the promise of timeoutPromise: it runs
\* for call c only if the response is what settles the race.
ResponseHandled(c) == calls[c].race = "pending"

\* 1 when a call in position pc has settled, else 0.
Settles(pc) == IF pc \in {"resolved", "rejected"} THEN 1 ELSE 0

\* An authorize() that sends the request and arms the timer while the
\* variables are still being collected.
AuthorizeEager(c) ==
  /\ calls[c].pc = "idle"
  /\ calls' = IF ~UsesServerProtocol
                THEN [calls EXCEPT ![c].pc = "client", ![c].delegated = @ + 1]
                ELSE [calls EXCEPT ![c].pc = "vars", ![c].collected = @ + 1,
                                   ![c].fetched = @ + 1, ![c].net = "inflight",
                                   ![c].timer = "armed", ![c].race = "pending",
                                   ![c].delay = AUTHORIZATION_TIMEOUT]
  /\ UNCHANGED <<liveDoc, ctorVars, vsyncQueue, mergeVars, returned, encVars>>

\* authorize() is called: it delegates to the client adapter, or starts the
\* collection of the variables.
Authorize(c) ==
  /\ calls[c].pc = "idle"
  /\ calls' = IF ~UsesServerProtocol
                THEN [calls EXCEPT ![c].pc = "client", ![c].delegated = @ + 1]
                ELSE [calls EXCEPT ![c].pc = "vars", ![c].collected = @ + 1]
  /\ UNCHANGED <<liveDoc, ctorVars, vsyncQueue, mergeVars, returned, encVars>>

\* The promise of clientAdapter_.authorize() settles; the call returned it.
ClientSettles(c) ==
  /\ calls[c].pc = "client"
  /\ \E ok \in BOOLEAN :
       calls' = [calls EXCEPT
         ![c].pc = IF ok THEN "resolved" ELSE "rejected",
         ![c].result = IF ok THEN Resolved([subscriber |-> TRUE])
                       ELSE Rejected("client"),
         ![c].settled = @ + 1]
  /\ UNCHANGED <<liveDoc, ctorVars, vsyncQueue, mergeVars, returned, encVars>>

\* A request sent without the timeout around it.
VarsResolveNoTimer(c) ==
  /\ calls[c].pc = "vars"
  /\ \E v \in VarsSamples :
       calls' = [calls EXCEPT
         ![c].pc = "fetch", ![c].vars = v, ![c].request = Request(v),
         ![c].fetched = @ + 1, ![c].net = "inflight",
         ![c].race = "pending"]
  /\ UNCHANGED <<liveDoc, ctorVars, vsyncQueue, mergeVars, returned, encVars>>

\* collectUrlVars resolves: the request is built and sent, and the timer armed.
VarsResolve(c) ==
  /\ calls[c].pc = "vars"
  /\ \E v \in VarsSamples :
       calls' = [calls EXCEPT
         ![c].pc = "fetch", ![c].vars = v, ![c].request = Request(v),
         ![c].fetched = @ + 1, ![c].net = "inflight",
         ![c].timer = "armed", ![c].delay = AUTHORIZATION_TIMEOUT,
         ![c].race = "pending"]
  /\ UNCHANGED <<liveDoc, ctorVars, vsyncQueue, mergeVars, returned, encVars>>

\* collectUrlVars rejects: the chain has no handler for it, the call rejects.
VarsReject(c) ==
  /\ calls[c].pc = "vars"
  /\ calls' = [calls EXCEPT ![c].pc = "rejected",
                            ![c].result = Rejected("vars"),
                            ![c].settled = @ + 1]
  /\ UNCHANGED <<liveDoc, ctorVars, vsyncQueue, mergeVars, returned, encVars>>

\* The response document of the request of call c arrives.
ResponseArrives(c) ==
  /\ calls[c].net = "inflight"
  /\ \E doc \in RespSamples :
       IF ResponseHandled(c)
         THEN LET o == ResponseOutcome(doc)
              IN  /\ calls' = [calls EXCEPT
                        ![c].net = "done",
                        ![c].race = IF @ = "pending" THEN "response" ELSE @,
                        ![c].resp = doc, ![c].pc = o.pc, ![c].result = o.result,
                        ![c].batched = @ + (IF o.schedule THEN 1 ELSE 0),
                        ![c].settled = @ + Settles(o.pc)]
                  /\ vsyncQueue' = IF o.schedule
                                     THEN Append(vsyncQueue, [call |-> c, doc |-> doc])
                                     ELSE vsyncQueue
         ELSE /\ calls' = [calls EXCEPT ![c].net = "done"]
              /\ UNCHANGED vsyncQueue
  /\ UNCHANGED <<liveDoc, ctorVars, mergeVars, returned, encVars>>

\* A rejection of fetchDocument answered by sending the request again.
NetworkErrorRetry(c) ==
  /\ calls[c].net = "inflight"
  /\ calls[c].fetched < 2
  /\ calls' = [calls EXCEPT ![c].fetched = @ + 1]
  /\ UNCHANGED <<liveDoc, ctorVars, vsyncQueue, mergeVars, returned, encVars>>

\* fetchDocument rejects.
NetworkError(c) ==
  /\ calls[c].net = "inflight"
  /\ calls' = IF calls[c].race = "pending"
                THEN [calls EXCEPT ![c].net = "failed", ![c].race = "error",
                                   ![c].pc = "rejected",
                                   ![c].result = Rejected("network"),
                                   ![c].settled = @ + 1]
                ELSE [calls EXCEPT ![c].net = "failed"]
  /\ UNCHANGED <<liveDoc, ctorVars, vsyncQueue, mergeVars, returned, encVars>>

\* The timer of timeoutPromise fires.
TimerFires(c) ==
  /\ calls[c].timer = "armed"
  /\ calls' = IF calls[c].race = "pending"
                THEN [calls EXCEPT ![c].timer = "fired", ![c].race = "timeout",
                                   ![c].pc = "rejected",
                                   ![c].result = Rejected("timeout"),
                                   ![c].settled = @ + 1]
                ELSE [calls EXCEPT ![c].timer = "fired"]
  /\ UNCHANGED <<liveDoc, ctorVars, vsyncQueue, mergeVars, returned, encVars>>

\* vsync.mutatePromise(mutator): the promise resolves when the mutator has
\* run, and rejects when it threw.
MutatePromise(threw) == IF threw THEN "rejected" ELSE "resolved"

\* A batch run that resolves the waiting call with the access data of the
\* response that arrived last.
RunMutationLatest ==
  /\ vsyncQueue # <<>>
  /\ LET b == Head(vsyncQueue)
         r == ReplaceSections(liveDoc, b.doc.body)
         waits == calls[b.call].pc = "merge"
         latest == vsyncQueue[Len(vsyncQueue)].doc
     IN  /\ liveDoc' = r.doc
         /\ calls' = [calls EXCEPT
              ![b.call].mutated = TRUE,
              ![b.call].threw = r.threw,
              ![b.call].pc = IF waits THEN MutatePromise(r.threw) ELSE @,
              ![b.call].result =
                 IF waits /\ r.threw THEN Rejected("SyntaxError")
                 ELSE IF waits THEN Resolved(JsonParse(latest.text).value)
                 ELSE @,
              ![b.call].settled = @ + (IF waits THEN 1 ELSE 0)]
  /\ vsyncQueue' = Tail(vsyncQueue)
  /\ UNCHANGED <<ctorVars, mergeVars, returned, encVars>>

\* vsync runs the oldest mutation batch; its promise settles, and the call
\* that waits for it resolves with its access data or rejects.
RunMutation ==
  /\ vsyncQueue # <<>>
  /\ LET b == Head(vsyncQueue)
         r == ReplaceSections(liveDoc, b.doc.body)
         waits == calls[b.call].pc = "merge"
     IN  /\ liveDoc' = r.doc
         /\ calls' = [calls EXCEPT
              ![b.call].mutated = TRUE,
              ![b.call].threw = r.threw,
              ![b.call].pc = IF waits THEN MutatePromise(r.threw) ELSE @,
              ![b.call].result = IF waits /\ r.threw
                                   THEN Rejected("SyntaxError") ELSE @,
              ![b.call].settled = @ + (IF waits THEN 1 ELSE 0)]
  /\ vsyncQueue' = Tail(vsyncQueue)
  /\ UNCHANGED <<ctorVars, mergeVars, returned, encVars>>

Next ==
  \/ \E c \in Calls :
       \/ Authorize(c)
       \/ ClientSettles(c)
       \/ VarsResolve(c)
       \/ VarsReject(c)
       \/ ResponseArrives(c)
       \/ NetworkError(c)
       \/ TimerFires(c)
  \/ RunMutation

Spec == Init /\ [][Next]_vars

\* A step in which vsync takes the oldest batch off its queue: in Spec these
\* are the steps of RunMutation, which is enabled whenever the queue is not
\* empty.
BatchRuns == vsyncQueue # <<>> /\ vsyncQueue' = Tail(vsyncQueue)

\* Spec with a timer that fires once armed and a vsync that runs the batches
\* it was given; the network and the other collaborators may stay silent.
FairSpec ==
  /\ Spec
  /\ \A c \in Calls : WF_vars(TimerFires(c))
  /\ WF_vsyncQueue(BatchRuns)

\* ------------------------------------------------------------------------
\* encodeReaderId()
\* ------------------------------------------------------------------------
\* this.win.crypto.subtle || this.win.crypto.webkitSubtle || null
SubtleOf(cap) == IF cap \in {"subtle", "webkitSubtle"} THEN cap ELSE Null

\* A cache that counts only once the key has been imported.
NeedsKeyUnresolved ==
  keyPromise_ = 0 \/ keyPromises[keyPromise_] # "fulfilled"

\* A cache that is given up when the import has failed.
NeedsKeyAfterFailure ==
  keyPromise_ = 0 \/ keyPromises[keyPromise_] = "import failed"

\* getSubtleWithKey_ has to create the key promise: !this.keyPromise_.
NeedsKeyPromise == keyPromise_ = 0

\* getSubtleWithKey_() that returns the rejection without caching it.
GetSubtleWithKeyUncached ==
  IF ~NeedsKeyPromise
    THEN [subtle |-> subtle_, keyPromise |-> keyPromise_, promises |-> keyPromises,
          counts |-> crypto, returns |-> keyPromise_]
  ELSE LET sub == IF cryptoCap # "none" THEN SubtleOf(cryptoCap) ELSE subtle_
           probed == [crypto EXCEPT !.probes = @ + 1]
           made == Len(keyPromises) + 1
       IN  IF sub # Null
             THEN [subtle |-> sub, keyPromise |-> made,
                   promises |-> Append(keyPromises, "pending"),
                   counts |-> [probed EXCEPT !.importKey = @ + 1],
                   returns |-> made]
             ELSE [subtle |-> sub, keyPromise |-> 0,
                   promises |-> Append(keyPromises, "No WebCrypto"),
                   counts |-> probed, returns |-> made]

\* getSubtleWithKey_(): the fields and the counts of the runtime's calls when
\* it returns, and the promise it returns.
GetSubtleWithKey ==
  IF ~NeedsKeyPromise
    THEN [subtle |-> subtle_, keyPromise |-> keyPromise_, promises |-> keyPromises,
          counts |-> crypto, returns |-> keyPromise_]
  ELSE LET sub == IF cryptoCap # "none" THEN SubtleOf(cryptoCap) ELSE subtle_
           probed == [crypto EXCEPT !.probes = @ + 1]
           made == Len(keyPromises) + 1
       IN  IF sub # Null
             THEN [subtle |-> sub, keyPromise |-> made,
                   promises |-> Append(keyPromises, "pending"),
                   counts |-> [probed EXCEPT !.importKey = @ + 1],
                   returns |-> made]
             ELSE [subtle |-> sub, keyPromise |-> made,
                   promises |-> Append(keyPromises, "No WebCrypto"),
                   counts |-> probed, returns |-> made]

\* encodeReaderId(readerId) is called: it takes the key promise and chains
\* the encryption on it.
EncodeReaderId(e) ==
  /\ encodes[e].pc = "idle"
  /\ LET r == GetSubtleWithKey
         n == Cardinality({x \in Encodes : encodes[x].pc # "idle"})
     IN  /\ subtle_' = r.subtle
         /\ keyPromise_' = r.keyPromise
         /\ keyPromises' = r.promises
         /\ crypto' = r.counts
         /\ encodes' = [encodes EXCEPT ![e] =
              [pc |-> "key", got |-> r.returns, order |-> n + 1,
               cap |-> cryptoCap, seen |-> r.promises[r.returns],
               result |-> Pending]]
  /\ UNCHANGED <<liveDoc, authVars, mergeVars, returned, cryptoCap>>

\* The promise of importKey settles.
ImportSettles(k) ==
  /\ keyPromises[k] = "pending"
  /\ \E s \in {"fulfilled", "import failed"} :
       keyPromises' = [keyPromises EXCEPT ![k] = s]
  /\ UNCHANGED <<liveDoc, authVars, mergeVars, returned, cryptoCap, subtle_, keyPromise_,
                 encodes, crypto>>

\* The handler chained on the key promise of call e runs: with a key it calls
\* this.subtle_.encrypt, a rejected key promise rejects the call.
KeySettled(e) ==
  /\ encodes[e].pc = "key"
  /\ keyPromises[encodes[e].got] # "pending"
  /\ IF keyPromises[encodes[e].got] = "fulfilled"
       THEN /\ encodes' = [encodes EXCEPT ![e].pc = "encrypt"]
            /\ crypto' = [crypto EXCEPT !.encrypt = @ + 1]
       ELSE /\ encodes' = [encodes EXCEPT ![e].pc = "rejected",
                                          ![e].result =
                                            Rejected(keyPromises[encodes[e].got])]
            /\ UNCHANGED crypto
  /\ UNCHANGED <<liveDoc, authVars, mergeVars, returned, cryptoCap, subtle_, keyPromise_,
                 keyPromises>>

\* The promise of encrypt settles: the call resolves with the encoded
\* ciphertext, or rejects.
EncryptSettles(e) ==
  /\ encodes[e].pc = "encrypt"
  /\ \E ok \in BOOLEAN :
       encodes' = [encodes EXCEPT
         ![e].pc = IF ok THEN "resolved" ELSE "rejected",
         ![e].result = IF ok THEN Resolved("base64") ELSE Rejected("encrypt")]
  /\ UNCHANGED <<liveDoc, authVars, mergeVars, returned, cryptoCap, subtle_, keyPromise_,
                 keyPromises, crypto>>

\* The runtime's encryption capability changes under the adapter.
CapabilityChanges ==
  /\ \E cap \in Capabilities \ {cryptoCap} : cryptoCap' = cap
  /\ UNCHANGED <<liveDoc, authVars, mergeVars, returned, subtle_, keyPromise_,
                 keyPromises, encodes, crypto>>

EncInit ==
  /\ liveDoc \in {d \in AuthLiveDocs : ~HasStateMeta(d)}
  /\ stateElement = [present |-> FALSE, content |-> Null, at |-> Null]
  /\ serverState_ = ServerStateOf(stateElement)
  /\ isProxyOrigin_ = FALSE
  /\ serviceUrl_ = RemoveFragment(Href)
  /\ calls = [c \in Calls |-> IdleCall]
  /\ vsyncQueue = <<>>
  /\ cryptoCap \in Capabilities
  /\ EncFields
  /\ mergeDoc = <<>>
  /\ mergeLog = <<>>
  /\ returned = NothingReturned

EncNext ==
  \/ \E e \in Encodes : EncodeReaderId(e) \/ KeySettled(e) \/ EncryptSettles(e)
  \/ \E k \in 1..Len(keyPromises) : ImportSettles(k)
  \/ CapabilityChanges

EncSpec == EncInit /\ [][EncNext]_vars

\* ------------------------------------------------------------------------
\* getConfig(), isAuthorizationEnabled(), pingback(), and ApiSpec: every
\* method of the adapter called in any order
\* ------------------------------------------------------------------------
\* A getConfig() that looks the server state up in the document again.
GetConfigFromDocument ==
  [client |-> "clientAdapter_.getConfig()", proxy |-> isProxyOrigin_,
   serverState |-> ServerStateOf(StateElementNow)]

\* The object getConfig() returns.
GetConfig ==
  [client |-> "clientAdapter_.getConfig()", proxy |-> isProxyOrigin_,
   serverState |-> serverState_]

\* getConfig() is called.
GetConfigCall ==
  /\ returned' = [returned EXCEPT !.getConfig = @ \cup {GetConfig}]
  /\ UNCHANGED <<liveDoc, authVars, encVars, mergeVars>>

\* isAuthorizationEnabled() is called: it returns true.
IsAuthorizationEnabled ==
  /\ returned' = [returned EXCEPT !.isAuthorizationEnabled = @ \cup {TRUE}]
  /\ UNCHANGED <<liveDoc, authVars, encVars, mergeVars>>

\* pingback() is called: it returns what the client adapter's pingback() does.
Pingback ==
  /\ returned' = [returned EXCEPT !.pingback = @ \cup {"clientAdapter_.pingback()"}]
  /\ UNCHANGED <<liveDoc, authVars, encVars, mergeVars>>

ApiNext ==
  \/ GetConfigCall
  \/ IsAuthorizationEnabled
  \/ Pingback
  \/ \E c \in ApiCalls :
       \/ Authorize(c)
       \/ ClientSettles(c)
       \/ VarsResolve(c)
       \/ VarsReject(c)
       \/ ResponseArrives(c)
       \/ NetworkError(c)
       \/ TimerFires(c)
  \/ RunMutation
  \/ \E e \in ApiEncodes : EncodeReaderId(e) \/ KeySettled(e) \/ EncryptSettles(e)
  \/ \E k \in 1..Len(keyPromises) : ImportSettles(k)

ApiSpec == Init /\ [][ApiNext]_vars

\* ------------------------------------------------------------------------
\* MergeSpec: replaceSections_ applied to every pair of documents
\* ------------------------------------------------------------------------
\* The live documents and the response documents MergeSpec starts from.
\* The identifiers of a document in the order of their first elements.
RECURSIVE FirstIds(_, _)
FirstIds(sections, seen) ==
  IF sections = <<>> THEN <<>>
  ELSE IF Head(sections).id \in seen THEN FirstIds(Tail(sections), seen)
  ELSE <<Head(sections).id>>
         \o FirstIds(Tail(sections), seen \cup {Head(sections).id})

\* The document names its identifiers a, b, c in the order it meets them.  Any
\* pair of a live and a response document is a pair with such a live
\* document, with the identifiers renamed in both.
InOrder(forest) ==
  LET ids == FirstIds(QuerySelectorAll(forest), {})
  IN  ids = SubSeq(<<IdA, IdB, IdC>>, 1, Len(ids))

\* Beside the documents over the plain identifiers: the small ones in which
\* an identifier has a double quote.
LiveDocs ==
  {f \in Forests("live", "Locked", Ids, MaxLive) : InOrder(f)}
    \cup Forests("live", "Locked", {IdA, QuoteId}, 2)
RespDocs ==
  Forests("resp", "Unlocked", Ids, MaxResp)
    \cup Forests("resp", "Unlocked", {IdA, QuoteId}, 2)

MergeInit ==
  /\ liveDoc \in LiveDocs
  /\ mergeDoc \in RespDocs
  /\ mergeLog = <<>>
  /\ stateElement = [present |-> TRUE, content |-> "srv-state", at |-> "head"]
  /\ serverState_ = ServerStateOf(stateElement)
  /\ isProxyOrigin_ = TRUE
  /\ serviceUrl_ = RemoveFragment(Href)
  /\ calls = [c \in Calls |-> IdleCall]
  /\ vsyncQueue = <<>>
  /\ cryptoCap = "subtle"
  /\ EncFields
  /\ returned = NothingReturned

\* The mutation batch of one replaceSections_(mergeDoc) runs.
MergeSections ==
  /\ Len(mergeLog) < MaxMerges
  /\ LET r == ReplaceSections(liveDoc, mergeDoc)
     IN  /\ liveDoc' = r.doc
         /\ mergeLog' = Append(mergeLog, [before |-> liveDoc, threw |-> r.threw])
  /\ UNCHANGED <<mergeDoc, authVars, encVars, returned>>

MergeNext == MergeSections

MergeSpec == MergeInit /\ [][MergeNext]_vars

\* ------------------------------------------------------------------------
\* Properties of authorize() (Spec)
\* ------------------------------------------------------------------------
\* Call c has a mutation batch waiting in the queue of vsync.
Queued(c) == \E k \in 1..Len(vsyncQueue) : vsyncQueue[k].call = c

\* C1: on a page without the server-state marker every authorize() call made
\* is handed to the client adapter's authorize(), and the adapter itself never
\* collects variables, sends a request or schedules a mutation batch.
C1_NoMarkerDelegates ==
  ~stateElement.present =>
    /\ serverState_ = Null
    /\ vsyncQueue = <<>>
    /\ \A c \in Calls :
         /\ calls[c].pc \in {"idle", "client", "resolved", "rejected"}
         /\ calls[c].pc # "idle" => calls[c].delegated = 1
         /\ calls[c].collected = 0
         /\ calls[c].fetched = 0
         /\ calls[c].batched = 0
         /\ ~calls[c].mutated

C1_Witness ==
  /\ ~stateElement.present
  /\ isProxyOrigin_
  /\ \E c \in Calls : calls[c].pc = "resolved" /\ calls[c].delegated = 1

\* C2: when the 3000 ms timer fires before the response arrives, the call
\* rejects with the timeout error and no mutation batch is scheduled or run
\* for it in that state or any later one, also when the response arrives
\* afterwards; the live document changes only by a batch that ran.
C2_TimeoutRejectsUnmerged ==
  /\ \A c \in Calls :
       calls[c].race = "timeout" =>
         /\ calls[c].delay = AUTHORIZATION_TIMEOUT
         /\ calls[c].pc = "rejected"
         /\ calls[c].result = Rejected("timeout")
         /\ calls[c].batched = 0
         /\ ~Queued(c)
         /\ ~calls[c].mutated
  /\ (\A c \in Calls : ~calls[c].mutated) => liveDoc \in AuthLiveDocs

C2_Witness ==
  \E c \in Calls :
    /\ calls[c].race = "timeout"
    /\ calls[c].net = "done"
    /\ calls[c].pc = "rejected"

\* C3: a response that arrives in time without the access-data element rejects
\* the call, and replaceSections_ is not invoked for it: no batch is scheduled
\* or run, whatever sections the response carries.
C3_MissingDataRejectsUnmerged ==
  \A c \in Calls :
    (calls[c].race = "response" /\ ~calls[c].resp.hasData) =>
      /\ calls[c].pc = "rejected"
      /\ calls[c].result.kind = "rejected"
      /\ calls[c].batched = 0
      /\ ~Queued(c)
      /\ ~calls[c].mutated

C3_Witness ==
  \E c \in Calls :
    /\ calls[c].race = "response"
    /\ ~calls[c].resp.hasData
    /\ calls[c].pc = "rejected"
    /\ \E k \in 1..Len(calls[c].resp.body) :
         QuerySelector(liveDoc, calls[c].resp.body[k].id).path # <<>>
    /\ liveDoc \in AuthLiveDocs

\* C4: on the server path a call has resolved only if the one mutation batch
\* of its response has been scheduled and has run, and its value is the access
\* data parsed from the access-data element of that response.
C4_ResolvesAfterMerge ==
  \A c \in Calls :
    (calls[c].pc = "resolved" /\ calls[c].delegated = 0) =>
      /\ calls[c].batched = 1
      /\ calls[c].mutated
      /\ ~calls[c].threw
      /\ ~Queued(c)
      /\ calls[c].resp.hasData
      /\ JsonParse(calls[c].resp.text).ok
      /\ calls[c].result = Resolved(JsonParse(calls[c].resp.text).value)

C4_Witness ==
  \E c \in Calls :
    /\ calls[c].pc = "resolved"
    /\ calls[c].delegated = 0
    /\ calls[c].result = Resolved([subscriber |-> FALSE])
    /\ liveDoc \notin AuthLiveDocs

\* C10: on the server path a call sends no request before its variables are
\* collected and exactly one from then on, whatever fails afterwards, and it
\* settles at most once: a failure is one rejection of the call.
C10_OneRequestOneRejection ==
  \A c \in Calls :
    /\ calls[c].fetched <= 1
    /\ calls[c].pc \in {"idle", "client", "vars"} => calls[c].fetched = 0
    /\ calls[c].race # "none" => calls[c].fetched = 1
    /\ calls[c].pc \in {"fetch", "merge"} => calls[c].fetched = 1
    /\ calls[c].settled <= 1
    /\ calls[c].settled = 1 <=> calls[c].pc \in {"resolved", "rejected"}
    /\ calls[c].pc = "rejected" <=> calls[c].result.kind = "rejected"
    /\ (calls[c].race \in {"timeout", "error"} \/ calls[c].threw)
         => calls[c].pc = "rejected"

C10_Witness ==
  \E c, d \in Calls :
    /\ calls[c].race = "error" /\ calls[c].pc = "rejected"
    /\ calls[c].fetched = 1 /\ calls[c].settled = 1
    /\ calls[d].race = "response" /\ calls[d].pc = "rejected"
    /\ calls[d].resp.text = "{oops"
    /\ calls[d].fetched = 1 /\ calls[d].settled = 1

\* ------------------------------------------------------------------------
\* Properties of encodeReaderId() (EncSpec)
\* ------------------------------------------------------------------------
\* The first encodeReaderId() call made found a subtle implementation.
FirstCallCapable ==
  \E e \in Encodes : encodes[e].order = 1 /\ SubtleOf(encodes[e].cap) # Null

\* The first encodeReaderId() call made found none.
FirstCallIncapable ==
  \E e \in Encodes : encodes[e].order = 1 /\ SubtleOf(encodes[e].cap) = Null

\* C8: when the first encodeReaderId() call finds the capability, importKey
\* is called exactly once however many calls follow and however they overlap
\* with the import, and every call is given that one key promise.
C8_OneImport ==
  FirstCallCapable =>
    /\ crypto.importKey = 1
    /\ keyPromise_ = 1
    /\ Len(keyPromises) = 1
    /\ \A e \in Encodes : encodes[e].pc # "idle" => encodes[e].got = 1

C8_Witness ==
  /\ FirstCallCapable
  /\ \A e \in Encodes : encodes[e].pc = "key"
  /\ keyPromises = <<"pending">>
  /\ crypto.importKey = 1

\* C9: when the first encodeReaderId() call finds no capability, the rejected
\* key promise is cached: the capability is probed that once, importKey and
\* encrypt are never called, and every call made gets the same rejected
\* promise and can only reject with its reason, also when the capability has
\* appeared in the meantime.
C9_UnavailableIsPermanent ==
  FirstCallIncapable =>
    /\ keyPromise_ = 1
    /\ keyPromises = <<"No WebCrypto">>
    /\ crypto = [probes |-> 1, importKey |-> 0, encrypt |-> 0]
    /\ \A e \in Encodes :
         /\ encodes[e].pc \in {"idle", "key", "rejected"}
         /\ encodes[e].pc # "idle" => encodes[e].got = 1
         /\ encodes[e].pc = "rejected" =>
              encodes[e].result = Rejected("No WebCrypto")

C9_Witness ==
  /\ FirstCallIncapable
  /\ \E e \in Encodes :
       /\ encodes[e].order = 2
       /\ SubtleOf(encodes[e].cap) # Null
       /\ encodes[e].pc = "rejected"

\* ------------------------------------------------------------------------
\* Properties of replaceSections_ (MergeSpec)
\* ------------------------------------------------------------------------
\* The paths of the elements of a document body.
RECURSIVE Paths(_)
Paths(forest) ==
  UNION {{<<i>>} \cup {<<i>> \o p : p \in Paths(forest[i].kids)} :
         i \in 1..Len(forest)}

\* The element at a path.
RECURSIVE NodeAt(_, _)
NodeAt(forest, path) ==
  IF Len(path) = 1 THEN forest[Head(path)]
  ELSE NodeAt(forest[Head(path)].kids, Tail(path))

\* The section identifiers a document carries.
IdsIn(forest) == {NodeAt(forest, p).id : p \in Paths(forest)} \ {NoId}

\* An element's own attributes and content, without its descendants.
Own(e) == [id |-> e.id, txt |-> e.txt, owner |-> e.owner]

\* Element c is a deep copy of element n in the live document: the same
\* identifier and content, and its children deep copies of the children of n.
RECURSIVE IsDeepCopy(_, _)
IsDeepCopy(c, n) ==
  /\ Own(c) = [id |-> n.id, txt |-> n.txt, owner |-> "live"]
  /\ Len(c.kids) = Len(n.kids)
  /\ \A k \in 1..Len(n.kids) : IsDeepCopy(c.kids[k], n.kids[k])

\* The element at path lies inside an element whose identifier is in ids.
Inside(forest, path, ids) ==
  \E n \in 1..(Len(path) - 1) : NodeAt(forest, SubSeq(path, 1, n)).id \in ids

\* No identifier is carried by two elements of the document.
UniqueIds(forest) ==
  \A p, q \in Paths(forest) :
    (NodeAt(forest, p).id # NoId /\ NodeAt(forest, p).id = NodeAt(forest, q).id)
      => p = q

\* No element with an identifier lies inside another one.
Unnested(forest) ==
  \A p \in Paths(forest) :
    NodeAt(forest, p).id # NoId => ~Inside(forest, p, IdsIn(forest))

\* The merge of fragments into before gave after: every placeholder whose
\* identifier is on a fragment is, at its place, the deep copy of a fragment
\* with that identifier, and every other element that is not inside such a
\* placeholder is where and as it was.
MergedInPlace(before, fragments, after) ==
  \A p \in Paths(before) :
    LET e == NodeAt(before, p)
    IN  Inside(before, p, IdsIn(fragments))
        \/ /\ p \in Paths(after)
           /\ IF e.id \in IdsIn(fragments)
                THEN \E q \in Paths(fragments) :
                       /\ NodeAt(fragments, q).id = e.id
                       /\ IsDeepCopy(NodeAt(after, p), NodeAt(fragments, q))
                ELSE /\ Own(NodeAt(after, p)) = Own(e)
                     /\ Len(NodeAt(after, p).kids) = Len(e.kids)

\* The first merge has run to its end.
MergedOnce == Len(mergeLog) = 1 /\ ~mergeLog[1].threw

\* C5 as stated: for every response document and live document, after
\* replaceSections_ completes every live placeholder whose identifier is on a
\* fragment of the response is replaced in place by a deep clone of that
\* fragment and every other element is unchanged.
C5_AsStated ==
  MergedOnce => MergedInPlace(mergeLog[1].before, mergeDoc, liveDoc)

\* C5: when no identifier is carried by two elements of the live document and
\* no fragment of the response lies inside another fragment, after
\* replaceSections_ completes every live placeholder whose identifier is on a
\* fragment of the response is replaced in place by a deep clone of that
\* fragment, and every other element outside the replaced placeholders is
\* unchanged.
C5_ReplacesMatchedOnly ==
  (MergedOnce /\ UniqueIds(mergeLog[1].before) /\ Unnested(mergeDoc))
    => MergedInPlace(mergeLog[1].before, mergeDoc, liveDoc)

C5_Witness ==
  /\ MergedOnce
  /\ UniqueIds(mergeLog[1].before)
  /\ Unnested(mergeDoc)
  /\ IdsIn(mergeLog[1].before) = {IdA, IdB}
  /\ IdsIn(mergeDoc) = {IdB}
  /\ \E q \in Paths(mergeDoc) : Len(NodeAt(mergeDoc, q).kids) = 1
  /\ liveDoc # mergeLog[1].before

\* C6 as stated: for every response document and every live document, a
\* second replaceSections_ with the same response document leaves the live
\* document as the first left it.
C6_AsStated ==
  Len(mergeLog) >= 2 => liveDoc = mergeLog[2].before

\* C6: when no identifier is carried by two elements of the live document and
\* no fragment of the response lies inside another fragment, every further
\* replaceSections_ with the same response document leaves the live document
\* as the first left it.
C6_IdempotentOnUniqueIds ==
  (Len(mergeLog) >= 2 /\ UniqueIds(mergeLog[1].before) /\ Unnested(mergeDoc))
    => /\ \A k \in 2..Len(mergeLog) : mergeLog[k].before = mergeLog[2].before
       /\ liveDoc = mergeLog[2].before

C6_Witness ==
  /\ Len(mergeLog) = 2
  /\ UniqueIds(mergeLog[1].before)
  /\ Unnested(mergeDoc)
  /\ ~UniqueIds(mergeDoc)
  /\ ~mergeLog[2].threw
  /\ mergeLog[2].before # mergeLog[1].before
  /\ liveDoc = mergeLog[2].before

\* The sections of the response document, in the order of the loop.
Sections == QuerySelectorAll(mergeDoc)

\* The live document after the loop has gone through the first k sections.
StepDoc(k) == ReplaceLoop(mergeLog[1].before, SubSeq(Sections, 1, k), 1).doc

\* The live element section k is for when its turn comes: the first one in
\* document order that carries its identifier, <<>> when there is none.
StepTarget(k) == FirstMatch(StepDoc(k - 1), Sections[k].id, 1)

\* C7: a fragment whose identifier is on no live element when its turn comes
\* is skipped: the merge runs to its end, the fragment leaves the live
\* document as it was, and every later fragment that has a target is merged
\* at that target.
C7_UnmatchedSkipped ==
  Len(mergeLog) = 1 =>
    \A k \in 1..Len(Sections) :
      StepTarget(k) = <<>> =>
        /\ ~mergeLog[1].threw
        /\ liveDoc = StepDoc(Len(Sections))
        /\ StepDoc(k) = StepDoc(k - 1)
        /\ \A j \in (k + 1)..Len(Sections) :
             StepTarget(j) # <<>> =>
               IsDeepCopy(NodeAt(StepDoc(j), StepTarget(j)), Sections[j])

\* ------------------------------------------------------------------------
\* Properties of the fields set by the constructor (ApiSpec)
\* ------------------------------------------------------------------------
\* The fields hold what the constructor read, and every getConfig() so far
\* has reported them.
FieldsAsConstructed ==
  /\ serverState_ = ServerStateOf(stateElement)
  /\ \A g \in returned.getConfig :
       g.proxy = isProxyOrigin_ /\ g.serverState = serverState_

\* No step changes the server state, the proxy flag or the choice between the
\* server protocol and the client adapter.
FieldsKept ==
  /\ serverState_' = serverState_
  /\ isProxyOrigin_' = isProxyOrigin_
  /\ (isProxyOrigin_' /\ serverState_' \notin {Null, ""})
       <=> (isProxyOrigin_ /\ serverState_ \notin {Null, ""})

\* C11: whatever methods are called and however they end, and whatever a
\* merge does to the live document, serverState_ and the proxy flag stay what
\* the constructor made them, and getConfig() reports these same values in
\* every state.
C11_FieldsNeverChange == [](FieldsAsConstructed) /\ [][FieldsKept]_vars

C11_Witness ==
  /\ stateElement.present
  /\ ~StateElementNow.present
  /\ calls[1].pc = "resolved"
  /\ encodes[1].pc = "resolved"
  /\ returned.getConfig # {}
  /\ returned.isAuthorizationEnabled # {}
  /\ returned.pingback # {}

\* ------------------------------------------------------------------------
\* Properties of the mutation batches (Spec)
\* ------------------------------------------------------------------------
\* The live document with every section that has a target merged, each at the
\* first element that carries its identifier when its turn comes.
RECURSIVE AllMerged(_, _, _)
AllMerged(live, sections, i) ==
  IF i > Len(sections) THEN live
  ELSE LET p == FirstMatch(live, sections[i].id, 1)
       IN  AllMerged(IF p = <<>> THEN live
                     ELSE ReplaceChild(live, p, ImportNode(sections[i])),
                     sections, i + 1)

\* A step that runs a batch merges every matched fragment of that batch's
\* response, and no other step touches the live document.
WholeBatches ==
  /\ BatchRuns =>
       liveDoc' = AllMerged(liveDoc, QuerySelectorAll(Head(vsyncQueue).doc.body), 1)
  /\ liveDoc' # liveDoc => BatchRuns

\* C12: the replacements of one replaceSections_ call are made in one step of
\* the mutation scheduler, which merges all of the call's matched fragments,
\* so no state shows the live document with only some of them merged, and the
\* batches of overlapping calls run one whole batch after the other.
C12_BatchesWhole == [][WholeBatches]_vars

\* The same for the batches whose response has no identifier with a double
\* quote in it.
WholePlainBatches ==
  /\ (BatchRuns /\ QuoteId \notin
        {QuerySelectorAll(Head(vsyncQueue).doc.body)[k].id :
           k \in 1..Len(QuerySelectorAll(Head(vsyncQueue).doc.body))}) =>
       liveDoc' = AllMerged(liveDoc, QuerySelectorAll(Head(vsyncQueue).doc.body), 1)
  /\ liveDoc' # liveDoc => BatchRuns

PlainBatchesWhole == [][WholePlainBatches]_vars

\* ------------------------------------------------------------------------
\* Further properties of authorize() (Spec)
\* ------------------------------------------------------------------------
\* The access-data texts that are JSON.
ValidJson == {"{\"subscriber\":true}", "{\"subscriber\":false}"}

\* C13: a call whose request failed on the network, or whose access data is
\* not JSON, rejects, and a mutation batch exists for a call only when its
\* response settled the race, has the access-data element and that element's
\* text is JSON; the live document changes only by such a batch.
C13_FailuresLeaveDocument ==
  /\ \A c \in Calls :
       /\ (calls[c].batched > 0 \/ Queued(c) \/ calls[c].mutated) =>
            /\ calls[c].race = "response"
            /\ calls[c].resp.hasData
            /\ calls[c].resp.text \in ValidJson
       /\ calls[c].race = "error" =>
            calls[c].pc = "rejected" /\ calls[c].result = Rejected("network")
       /\ (calls[c].race = "response" /\ calls[c].resp.text \notin ValidJson) =>
            calls[c].pc = "rejected" /\ calls[c].result.kind = "rejected"
  /\ liveDoc \notin AuthLiveDocs =>
       \E c \in Calls : calls[c].mutated /\ calls[c].resp.text \in ValidJson

C13_Witness ==
  /\ liveDoc \in AuthLiveDocs
  /\ vsyncQueue = <<>>
  /\ \E c, d \in Calls :
       /\ calls[c].race = "error" /\ calls[c].pc = "rejected"
       /\ calls[d].race = "response" /\ calls[d].resp.hasData
       /\ calls[d].resp.text \notin ValidJson
       /\ calls[d].pc = "rejected"
       /\ calls[d].batched = 0

\* The page is served through the proxy (or the experiment is on) and its
\* marker has a non-empty content.
ServerPage ==
  isProxyOrigin_ /\ stateElement.present /\ stateElement.content \notin {Null, ""}

\* What the client adapter's authorize() can have returned so far.
ClientResults == {Pending, Resolved([subscriber |-> TRUE]), Rejected("client")}

\* C14: a call takes the server path exactly when the proxy flag is set and
\* the marker has a non-empty content; every other call, also with an empty
\* marker or with a marker on a page that is not served through the proxy, is
\* the client adapter's authorize() with its result, and collects nothing,
\* sends nothing and merges nothing.
C14_ServerPathExactly ==
  \A c \in Calls :
    calls[c].pc # "idle" =>
      IF ServerPage
        THEN /\ calls[c].delegated = 0
             /\ calls[c].collected = 1
             /\ calls[c].pc # "client"
        ELSE /\ calls[c].delegated = 1
             /\ calls[c].pc \in {"client", "resolved", "rejected"}
             /\ calls[c].result \in ClientResults
             /\ calls[c].pc = "client" <=> calls[c].result = Pending
             /\ calls[c].collected = 0
             /\ calls[c].fetched = 0
             /\ calls[c].timer = "off"
             /\ calls[c].batched = 0
             /\ ~calls[c].mutated
             /\ liveDoc \in AuthLiveDocs

C14_Witness ==
  /\ isProxyOrigin_
  /\ stateElement.present
  /\ stateElement.content = ""
  /\ \E c, d \in Calls :
       /\ calls[c].result = Resolved([subscriber |-> TRUE])
       /\ calls[d].result = Rejected("client")

\* ------------------------------------------------------------------------
\* Further properties of replaceSections_ (MergeSpec)
\* ------------------------------------------------------------------------
\* Path p is path q or leads to an element inside the one at q.
Within(p, q) == Len(q) <= Len(p) /\ SubSeq(p, 1, Len(q)) = q

\* The element at p comes before the one at q in document order, or is it.
Precedes(p, q) ==
  \/ Within(q, p)
  \/ \E n \in 1..Len(p) :
       /\ n <= Len(q)
       /\ SubSeq(p, 1, n - 1) = SubSeq(q, 1, n - 1)
       /\ p[n] < q[n]

\* The merge of one section took before to after: the first element in
\* document order that carries the section's identifier has become a deep
\* copy of the section, and every element outside it, the others with that
\* identifier among them, is as it was; with no such element nothing changed.
ReplacedFirstOnly(before, section, after) ==
  LET carriers == {p \in Paths(before) : NodeAt(before, p).id = section.id}
  IN  IF carriers = {} THEN after = before
      ELSE \E p \in carriers :
             /\ \A q \in carriers : Precedes(p, q)
             /\ p \in Paths(after)
             /\ IsDeepCopy(NodeAt(after, p), section)
             /\ \A q \in Paths(before) :
                  ~Within(q, p) =>
                    /\ q \in Paths(after)
                    /\ Own(NodeAt(after, q)) = Own(NodeAt(before, q))
                    /\ Len(NodeAt(after, q).kids) = Len(NodeAt(before, q).kids)

\* C15: when an identifier is carried by several elements of the live
\* document, the merge runs to its end without failing, and each fragment
\* replaces only the first element in document order that carries its
\* identifier when its turn comes, every other element with that identifier
\* staying as it was.
C15_FirstMatchOnly ==
  (Len(mergeLog) = 1 /\ ~UniqueIds(mergeLog[1].before)) =>
    /\ ~mergeLog[1].threw
    /\ liveDoc = StepDoc(Len(Sections))
    /\ \A k \in 1..Len(Sections) :
         ReplacedFirstOnly(StepDoc(k - 1), Sections[k], StepDoc(k))

\* The same for the documents whose identifiers have no double quote.
PlainFirstMatchOnly ==
  (Len(mergeLog) = 1 /\ ~UniqueIds(mergeLog[1].before)
     /\ QuoteId \notin IdsIn(mergeDoc)) =>
    /\ ~mergeLog[1].threw
    /\ liveDoc = StepDoc(Len(Sections))
    /\ \A k \in 1..Len(Sections) :
         ReplacedFirstOnly(StepDoc(k - 1), Sections[k], StepDoc(k))

\* The string the request carries for the collected value x is its string
\* form.
StringFormOf(x, str) ==
  CASE x.t = "string" -> str = x.v
    [] x.t = "number" -> (x.v = 0 /\ str = "0") \/ (x.v = 1 /\ str = "1")
    [] x.t = "boolean" -> (x.v /\ str = "true") \/ (~x.v /\ str = "false")
    [] OTHER -> FALSE

\* C16: the vars of the request a call sent have exactly the keys of the
\* collected variables that are neither null nor undefined, each with the
\* string form of its value, falsy values included, and the request's state
\* is the server state the constructor read.
C16_RequestFromVars ==
  \A c \in Calls :
    calls[c].fetched = 1 =>
      LET v == calls[c].vars
          r == calls[c].request
      IN  /\ DOMAIN r.vars = {k \in DOMAIN v : v[k].t \notin {"null", "undefined"}}
          /\ \A k \in DOMAIN r.vars : StringFormOf(v[k], r.vars[k])
          /\ r.state = serverState_
          /\ r.state = stateElement.content

C16_Witness ==
  \E c, d \in Calls :
    /\ calls[c].fetched = 1
    /\ DOMAIN calls[c].vars = {"READER_ID", "AUTHDATA", "FLAG", "EMPTY"}
    /\ DOMAIN calls[c].request.vars = {"FLAG", "EMPTY"}
    /\ calls[c].request.vars["FLAG"] = "false"
    /\ calls[c].request.vars["EMPTY"] = ""
    /\ calls[d].fetched = 1
    /\ DOMAIN calls[d].request.vars = {"READER_ID", "RANDOM"}
    /\ calls[d].request.vars["RANDOM"] = "0"
    /\ calls[d].request.state = "srv-state"

\* C17: a call on the server path has sent no request and armed no timer as
\* long as its variables are not collected, a request was sent only with the
\* collected variables, and a call whose collection rejected has rejected
\* without a request, a timer or a mutation batch.
C17_CollectFirst ==
  \A c \in Calls :
    /\ calls[c].pc \in {"idle", "vars"} =>
         /\ calls[c].fetched = 0
         /\ calls[c].net = "none"
         /\ calls[c].timer = "off"
         /\ calls[c].race = "none"
    /\ (calls[c].net # "none" \/ calls[c].timer # "off") =>
         calls[c].collected = 1 /\ calls[c].vars \in VarsSamples
    /\ calls[c].result = Rejected("vars") =>
         /\ calls[c].pc = "rejected"
         /\ calls[c].fetched = 0
         /\ calls[c].net = "none"
         /\ calls[c].timer = "off"
         /\ calls[c].batched = 0
         /\ ~Queued(c)
         /\ ~calls[c].mutated

C17_Witness ==
  \E c, d \in Calls :
    /\ calls[c].result = Rejected("vars")
    /\ calls[c].collected = 1
    /\ calls[d].pc = "fetch"
    /\ calls[d].timer = "armed"
    /\ calls[d].net = "inflight"

\* ------------------------------------------------------------------------
\* Liveness of authorize() (FairSpec)
\* ------------------------------------------------------------------------
\* C18: a call on the server path whose variables have been collected settles
\* in the end, resolved or rejected, whether or not the network ever answers,
\* provided the timer fires and vsync runs the batches it holds.
C18_EventuallySettles ==
  \A c \in Calls :
    (calls[c].collected = 1 /\ calls[c].pc # "vars")
      ~> (calls[c].pc \in {"resolved", "rejected"})

C18_Witness ==
  \E c, d \in Calls :
    /\ calls[c].net = "inflight"
    /\ calls[c].race = "timeout"
    /\ calls[c].pc = "rejected"
    /\ calls[d].net = "inflight"
    /\ calls[d].pc = "fetch"

\* ------------------------------------------------------------------------
\* Further properties of encodeReaderId() (EncSpec)
\* ------------------------------------------------------------------------
\* C19: keyPromise_ is set at most once and never reset, and when the import
\* of the key has failed the failed promise stays cached: importKey has been
\* called that once, encrypt never, and every call made, before or after the
\* failure, holds that promise and can only reject with its reason.
C19_FailedImportIsPermanent ==
  /\ Len(keyPromises) <= 1
  /\ keyPromise_ = Len(keyPromises)
  /\ crypto.importKey <= 1
  /\ keyPromises = <<"import failed">> =>
       /\ crypto.importKey = 1
       /\ crypto.encrypt = 0
       /\ \A e \in Encodes :
            /\ encodes[e].pc \in {"idle", "key", "rejected"}
            /\ encodes[e].pc # "idle" => encodes[e].got = 1
            /\ encodes[e].pc = "rejected" =>
                 encodes[e].result = Rejected("import failed")

C19_Witness ==
  /\ keyPromises = <<"import failed">>
  /\ \E e \in Encodes :
       /\ encodes[e].order = 2
       /\ encodes[e].seen = "import failed"
       /\ encodes[e].pc = "rejected"

\* ------------------------------------------------------------------------
\* Overlapping authorize() calls (Spec)
\* ------------------------------------------------------------------------
\* The access data the text of an access-data element stands for.
DataOf(text) ==
  IF text = "{\"subscriber\":true}" THEN [subscriber |-> TRUE]
  ELSE [subscriber |-> FALSE]

\* C20: each call on the server path sends its own request, built from its own
\* variables; the batch queued for a call carries that call's response; and a
\* call that has resolved has the access data of its own response, whatever
\* the other calls received and in whatever order the responses came and the
\* batches ran.
C20_OwnResponse ==
  /\ \A c \in Calls :
       /\ calls[c].race # "none" =>
            /\ calls[c].fetched = 1
            /\ DOMAIN calls[c].request.vars \subseteq DOMAIN calls[c].vars
       /\ (calls[c].pc = "resolved" /\ calls[c].delegated = 0) =>
            /\ calls[c].race = "response"
            /\ calls[c].resp.text \in ValidJson
            /\ calls[c].result = Resolved(DataOf(calls[c].resp.text))
  /\ \A k \in 1..Len(vsyncQueue) :
       vsyncQueue[k].doc = calls[vsyncQueue[k].call].resp

C20_Witness ==
  \E c, d \in Calls :
    /\ calls[c].pc = "resolved" /\ calls[c].delegated = 0
    /\ calls[d].pc = "resolved" /\ calls[d].delegated = 0
    /\ calls[c].result = Resolved([subscriber |-> TRUE])
    /\ calls[d].result = Resolved([subscriber |-> FALSE])
    /\ calls[c].vars # calls[d].vars

====
